---- MODULE Spec2Model ----
(***************************************************************************)
(* Flash-sale reservation engine: ReservationsService (create, complete,   *)
(* handleExpiredReservations, expireReservation, getStatistics), the Bull  *)
(* queue job that calls expireReservation                                  *)
(* (ReservationsProcessor.handleExpiration), incrementStock of             *)
(* ProductsService, and the frontend client's fetchWithRetry,              *)
(* createReservation and completeReservation (lib/api.ts).                 *)
(*                                                                         *)
(* Every await of the source is a step boundary: other requests, the queue *)
(* job and the cron tick may run between two steps of one handler.  The    *)
(* create transaction buffers its writes until commitTransaction and holds *)
(* the product row lock (pessimistic_write) until commit or rollback.      *)
(* Time is counted in minutes.                                             *)
(***************************************************************************)
EXTENDS Integers, Sequences, FiniteSets, TLC

\* ---------------------------------------------------------------- bounds
MaxStock    == 1       \* totalStock of every seeded product
MaxQuantity == 1       \* largest quantity a create request asks for
MaxFaults   == 1       \* storage errors injected in one execution

\* ------------------------------------------------------ program constants
HoldMinutes == 2       \* expiresAt.setMinutes(expiresAt.getMinutes() + 2)
JobDelay    == 2       \* delay: 2 * 60 * 1000 ms
JobAttempts == 3       \* attempts: 3
DefaultMaxRetries == 3 \* fetchWithRetry: maxRetries: number = 3

ProductIds     == {"p1"}          \* seeded product rows
MissingProduct == "missing"       \* an id with no product row
ReserverOrder  == <<"r1", "r2">>  \* create requests; a reservation takes the id of its request
Reservers      == {ReserverOrder[i] : i \in DOMAIN ReserverOrder}
Confirmers     == {"k1"}          \* complete requests
Cron           == "cron"          \* the cron tick as a caller of expireReservation
Runners        == Reservers \cup {Cron}
NoOne          == "none"          \* no transaction holds the row lock

ACTIVE    == "ACTIVE"
COMPLETED == "COMPLETED"
EXPIRED   == "EXPIRED"
ReservationStatus == {ACTIVE, COMPLETED, EXPIRED}

VARIABLES
  now,             \* wall clock (minutes)
  totalStock,      \* products.totalStock per product, written by the seed only
  availableStock,  \* products.availableStock, committed value per product
  rowLock,         \* product row lock: the create call holding it, or NoOne
  reservations,    \* committed rows of table reservations, keyed by id
  credited,        \* history: incrementStock calls made for each reservation id
  reserve,         \* per create call: position, arguments, locals, transaction, result
  confirm,         \* per complete call: position, id, result
  job,             \* per reservation id: its expire-reservation queue job and its log
  expire,          \* per caller of expireReservation: position inside it
  cronList,        \* expiredReservations still to be processed by the running tick
  faults,          \* storage errors injected so far
  statistics,      \* the getStatistics call: position, counts read so far
  client           \* the frontend client's call: api function, loop state, requests

vars == <<now, totalStock, availableStock, rowLock, reservations, credited, reserve,
          confirm, job, expire, cronList, faults, statistics, client>>

\* --------------------------------------------------------------- helpers
Exists(id) == id \in DOMAIN reservations

\* products.service.ts incrementStock: availableStock = availableStock + quantity
incrementAnyRow(stock, id, quantity) ==
  [stock EXCEPT ![CHOOSE p \in DOMAIN stock : TRUE] = @ + quantity]
incrementStock(stock, id, quantity) == [stock EXCEPT ![id] = @ + quantity]

\* create: the stock check under the row lock
insufficientStock(available, quantity) == available < quantity

\* create: UPDATE products SET availableStock = availableStock - :quantity,
\* issued on the transaction's query runner: the committed row is unchanged
\* until commitTransaction.
deductAutocommit(stock, id, quantity) == [stock EXCEPT ![id] = @ - quantity]
deductStock(stock, id, quantity) == stock

\* create: commitTransaction publishes the buffered decrement
commitStock(stock, id, quantity) == [stock EXCEPT ![id] = @ - quantity]

\* create: the reservation row built at lines 81-89.  createdAt is not given
\* by create: the column is a CreateDateColumn, filled by the database default
\* (README line 240: DEFAULT CURRENT_TIMESTAMP), which in PostgreSQL is the
\* start time of the inserting transaction.
newReservationExpired(productId, quantity, createdAt, expiresAt) ==
  [productId |-> productId, quantity |-> quantity, status |-> EXPIRED,
   createdAt |-> createdAt, expiresAt |-> expiresAt]
newReservationFromCreatedAt(productId, quantity, createdAt, expiresAt) ==
  [productId |-> productId, quantity |-> quantity, status |-> ACTIVE,
   createdAt |-> createdAt, expiresAt |-> createdAt + HoldMinutes]
newReservation(productId, quantity, createdAt, expiresAt) ==
  [productId |-> productId, quantity |-> quantity, status |-> ACTIVE,
   createdAt |-> createdAt, expiresAt |-> expiresAt]

\* create: if (quantity < 1), before the query runner is created
invalidQuantityNegativeOnly(quantity) == quantity < 0
invalidQuantity(quantity) == quantity < 1

\* create: the result returned after queue.add; its try/catch logs a failed
\* add and lets the reservation be returned all the same
afterScheduleSurfacing(added) == IF added THEN "Claim" ELSE "InternalServerError"
afterSchedule(added) == "Claim"

\* complete: if (reservation.status !== ReservationStatus.ACTIVE)
cannotCompleteOnlyCompleted(status) == status = COMPLETED
cannotComplete(status) == status # ACTIVE

\* complete: if (now > reservation.expiresAt)
alreadyExpiredAtDeadline(t, expiresAt) == t >= expiresAt
alreadyExpired(t, expiresAt) == t > expiresAt

\* handleExpiredReservations: status ACTIVE and expiresAt LessThan(new Date())
cronSelectsAtDeadline(r, t) == r.status = ACTIVE /\ r.expiresAt <= t
cronSelectsWrongStatus(r, t) == r.status = EXPIRED /\ r.expiresAt < t
cronSelects(r, t) == r.status = ACTIVE /\ r.expiresAt < t

\* expireReservation: if (!reservation || reservation.status !== ACTIVE) return
skipExpireCompletedOnly(id) == ~Exists(id) \/ reservations[id].status = COMPLETED
skipExpireMissingOnly(id) == ~Exists(id)
skipExpire(id) == ~Exists(id) \/ reservations[id].status # ACTIVE

expiredReservations(t) ==
  SelectSeq(ReserverOrder,
            LAMBDA id : Exists(id) /\ cronSelects(reservations[id], t))

\* pessimistic_write: the row is locked by another open transaction
rowLockedAnyRow(lock, id) == \E p \in DOMAIN lock : lock[p] # NoOne
rowLockedElsewhere(lock, id) == \E p \in DOMAIN lock \ {id} : lock[p] # NoOne
rowNeverLocked(lock, id) == FALSE
rowLocked(lock, id) == lock[id] # NoOne

unlockNothing(c) == rowLock
unlock(c) == [p \in DOMAIN rowLock |-> IF rowLock[p] = c THEN NoOne ELSE rowLock[p]]

\* create: catch block (lines 126-140) followed by finally (lines 141-144),
\* which releases the query runner's connection whatever the catch block did.
\* rollbackTransaction on a transaction that is no longer active throws
\* TransactionNotStartedError, which replaces the error being handled.
catchErrorNoFinally(r, error) ==
  IF r.txActive
    THEN [r EXCEPT !.pc = "done", !.txActive = FALSE, !.rollbacks = @ + 1,
                   !.deducted = 0, !.product = 0, !.expiresAt = 0,
                   !.startedAt = 0,
                   !.result = IF error \in {"NotFound", "InsufficientStock"}
                                THEN error ELSE "InternalServerError"]
    ELSE [r EXCEPT !.pc = "done", !.rollbacks = @ + 1, !.deducted = 0,
                   !.product = 0, !.expiresAt = 0,
                   !.startedAt = 0,
                   !.result = "TransactionNotStartedError"]

catchError(r, error) ==
  IF r.txActive
    THEN [r EXCEPT !.pc = "done", !.txActive = FALSE, !.rollbacks = @ + 1,
                   !.deducted = 0, !.product = 0, !.expiresAt = 0,
                   !.startedAt = 0, !.connection = "released",
                   !.result = IF error \in {"NotFound", "InsufficientStock"}
                                THEN error ELSE "InternalServerError"]
    ELSE [r EXCEPT !.pc = "done", !.rollbacks = @ + 1, !.deducted = 0,
                   !.product = 0, !.expiresAt = 0,
                   !.startedAt = 0, !.connection = "released",
                   !.result = "TransactionNotStartedError"]

\* create: rollbackTransaction() called inside the try block, then throw
rollbackThenThrow(r, error) ==
  catchError([r EXCEPT !.txActive = FALSE, !.rollbacks = @ + 1, !.deducted = 0],
             error)

\* --------------------------------------------- frontend client (lib/api.ts)
\* what one fetch can come to: a response with an HTTP status, or a thrown
\* error (fetchWithTimeout turns an abort into ApiRequestError 408; a network
\* failure is rethrown as it is, noted here with status 0)
Statuses == {200, 400, 404, 499, 500, 503}
Answers ==
  {[kind |-> "response", status |-> s] : s \in Statuses}
    \cup {[kind |-> "error", status |-> 408], [kind |-> "error", status |-> 0]}
NoAnswer == [kind |-> "none", status |-> 0]

\* fetchWithRetry: for (let i = 0; i < maxRetries; i++)
moreAttemptsInclusive(i, maxRetries) == i <= maxRetries
moreAttempts(i, maxRetries) == i < maxRetries

\* fetchWithRetry: if (response.status >= 400 && response.status < 500)
clientError(status) == status >= 400 /\ status < 500

\* fetchWithRetry: if (response.status >= 500 && i < maxRetries - 1)
retryServerError(status, i, maxRetries) == status >= 500 /\ i < maxRetries - 1

\* handleResponse: response.ok
ok(status) == status >= 200 /\ status < 300

\* ------------------------------------------------------------------ Init
\* the state after seedProducts has filled an empty products table with rows
\* whose availableStock equals their totalStock; nothing else has run yet.
\* callers are the complete requests that will be made.
started(total, callers) ==
  /\ now = 0
  /\ totalStock = total
  /\ availableStock = total
  /\ rowLock = [p \in DOMAIN total |-> NoOne]
  /\ reservations = <<>>
  /\ credited = [c \in Reservers |-> 0]
  /\ reserve = [c \in Reservers |->
                 [pc |-> "idle", productId |-> MissingProduct, quantity |-> 0,
                  product |-> 0, expiresAt |-> 0, txActive |-> FALSE,
                  rollbacks |-> 0, deducted |-> 0, failedAt |-> "none",
                  startedAt |-> 0, connection |-> "none", result |-> "none"]]
  /\ confirm = [k \in callers |-> [pc |-> "idle", id |-> "none", result |-> "none"]]
  /\ job = [c \in Reservers |->
              [state |-> "none", attemptsMade |-> 0, dueAt |-> 0, restored |-> FALSE]]
  /\ expire = [r \in Runners |-> "idle"]
  /\ cronList = <<>>
  /\ faults = 0
  /\ statistics = [pc |-> "idle", active |-> 0, completed |-> 0, expired |-> 0,
                   fewest |-> 0, most |-> 0]
  /\ client = [pc |-> "idle", api |-> "none", maxRetries |-> 0, i |-> 0,
               requests |-> 0, responses |-> <<>>, lastError |-> NoAnswer,
               outcome |-> NoAnswer]

seeded(total) == started(total, Confirmers)

Init == seeded([p \in ProductIds |-> MaxStock])

\* ---------------------------------------------------------------- create
\* lines 32-44: validate quantity, connect, startTransaction; timestamp is
\* the reading of the database clock that the transaction keeps as its start
\* time
callCreate(c, timestamp) ==
  /\ reserve[c].pc = "idle"
  /\ \E p \in DOMAIN totalStock \cup {MissingProduct}, q \in 0..MaxQuantity :
       reserve' = [reserve EXCEPT ![c] =
         IF invalidQuantity(q)
           THEN [@ EXCEPT !.pc = "done", !.productId = p, !.quantity = q,
                          !.result = "InvalidQuantity"]
           ELSE [@ EXCEPT !.pc = "lock", !.productId = p, !.quantity = q,
                          !.connection = "open", !.txActive = TRUE,
                          !.startedAt = timestamp]]
  /\ UNCHANGED <<now, totalStock, availableStock, rowLock, reservations, credited, confirm,
                 job, expire, cronList, faults, statistics, client>>

\* no handler reads createdAt (findAll only sorts by it): the transaction's
\* start time is recorded as 0, except where createdAt is looked at
\* (CreateCallAt below)
CreateCall(c) == callCreate(c, 0)

\* lines 49-61: SELECT ... FOR UPDATE; product not found
CreateLock(c) ==
  /\ reserve[c].pc = "lock"
  /\ LET p == reserve[c].productId IN
       IF p \notin DOMAIN availableStock
         THEN /\ reserve' = [reserve EXCEPT ![c] = rollbackThenThrow(@, "NotFound")]
              /\ UNCHANGED rowLock
         ELSE /\ ~rowLocked(rowLock, p)
              /\ rowLock' = [rowLock EXCEPT ![p] = c]
              /\ reserve' = [reserve EXCEPT ![c].pc = "deduct",
                                            ![c].product = availableStock[p]]
  /\ UNCHANGED <<now, totalStock, availableStock, reservations, credited, confirm, job,
                 expire, cronList, faults, statistics, client>>

\* lines 63-78: stock check, then the UPDATE inside the transaction
CreateDeduct(c) ==
  /\ reserve[c].pc = "deduct"
  /\ LET r == reserve[c] IN
       IF insufficientStock(r.product, r.quantity)
         THEN /\ reserve' = [reserve EXCEPT ![c] =
                               rollbackThenThrow(@, "InsufficientStock")]
              /\ rowLock' = unlock(c)
              /\ UNCHANGED availableStock
         ELSE /\ reserve' = [reserve EXCEPT ![c].pc = "save",
                                            ![c].deducted = r.quantity]
              /\ availableStock' = deductStock(availableStock, r.productId, r.quantity)
              /\ UNCHANGED rowLock
  /\ UNCHANGED <<now, totalStock, reservations, credited, confirm, job, expire, cronList,
                 faults, statistics, client>>

\* lines 81-91: expiresAt = now + 2 minutes; save the reservation in the transaction
CreateSave(c) ==
  /\ reserve[c].pc = "save"
  /\ reserve' = [reserve EXCEPT ![c].pc = "commit",
                                ![c].expiresAt = now + HoldMinutes]
  /\ UNCHANGED <<now, totalStock, availableStock, rowLock, reservations, credited, confirm,
                 job, expire, cronList, faults, statistics, client>>

\* line 94: commitTransaction publishes decrement and reservation, releases the lock
CreateCommit(c) ==
  /\ reserve[c].pc = "commit"
  /\ LET r == reserve[c] IN
       /\ availableStock' = commitStock(availableStock, r.productId, r.deducted)
       /\ reservations' = reservations @@
                            (c :> newReservation(r.productId, r.quantity, r.startedAt,
                                                 r.expiresAt))
       /\ reserve' = [reserve EXCEPT ![c].pc = "schedule", ![c].txActive = FALSE,
                                     ![c].deducted = 0, ![c].product = 0,
                                     ![c].expiresAt = 0, ![c].startedAt = 0]
  /\ rowLock' = unlock(c)
  /\ UNCHANGED <<now, totalStock, credited, confirm, job, expire, cronList, faults,
                 statistics, client>>

\* lines 97-125 and 141-144: reservationQueue.add with delay; a failure to add
\* is swallowed; the reservation is returned and finally releases the connection
CreateSchedule(c) ==
  /\ reserve[c].pc = "schedule"
  /\ \E added \in BOOLEAN :
       /\ job' = IF added
                   THEN [job EXCEPT ![c] = [state |-> "delayed", attemptsMade |-> 0,
                                            dueAt |-> now + JobDelay,
                                            restored |-> FALSE]]
                   ELSE job
       /\ reserve' = [reserve EXCEPT ![c].pc = "done",
                                     ![c].connection = "released",
                                     ![c].result = afterSchedule(added)]
  /\ UNCHANGED <<now, totalStock, availableStock, rowLock, reservations, credited, confirm,
                 expire, cronList, faults, statistics, client>>

\* a storage error thrown by the awaited call at the current step (lines 126-144)
CreateFail(c) ==
  /\ reserve[c].pc \in {"lock", "deduct", "save", "commit"}
  /\ faults < MaxFaults
  /\ faults' = faults + 1
  /\ reserve' = [reserve EXCEPT ![c] =
                    catchError([@ EXCEPT !.failedAt = reserve[c].pc], "QueryFailedError")]
  /\ rowLock' = unlock(c)
  /\ UNCHANGED <<now, totalStock, availableStock, reservations, credited, confirm, job,
                 expire, cronList, statistics, client>>

\* -------------------------------------------------------------- complete
\* lines 151-167: load the reservation, check status and deadline
CompleteFind(k) ==
  /\ confirm[k].pc = "idle"
  /\ \E id \in Reservers :
       confirm' = [confirm EXCEPT ![k] =
         IF ~Exists(id)
           THEN [pc |-> "done", id |-> id, result |-> "NotFound"]
         ELSE IF cannotComplete(reservations[id].status)
           THEN [pc |-> "done", id |-> id, result |-> "AlreadyResolved"]
         ELSE IF alreadyExpired(now, reservations[id].expiresAt)
           THEN [pc |-> "recheck", id |-> id, result |-> "none"]
           ELSE [pc |-> "saveCompleted", id |-> id, result |-> "none"]]
  /\ UNCHANGED <<now, totalStock, availableStock, rowLock, reservations, credited, reserve,
                 job, expire, cronList, faults, statistics, client>>

\* lines 169-173 and 183: second findOne in the expired branch
CompleteRecheck(k) ==
  /\ confirm[k].pc = "recheck"
  /\ confirm' = [confirm EXCEPT ![k] =
       IF reservations[@.id].status = ACTIVE
         THEN [@ EXCEPT !.pc = "saveExpired"]
         ELSE [@ EXCEPT !.pc = "done", !.result = "Expired"]]
  /\ UNCHANGED <<now, totalStock, availableStock, rowLock, reservations, credited, reserve,
                 job, expire, cronList, faults, statistics, client>>

\* lines 175-176: save status EXPIRED
CompleteSaveExpired(k) ==
  /\ confirm[k].pc = "saveExpired"
  /\ reservations' = [reservations EXCEPT ![confirm[k].id].status = EXPIRED]
  /\ confirm' = [confirm EXCEPT ![k].pc = "increment"]
  /\ UNCHANGED <<now, totalStock, availableStock, rowLock, credited, reserve, job, expire,
                 cronList, faults, statistics, client>>

\* lines 177-185: incrementStock, then throw "Reservation has expired"
CompleteIncrement(k) ==
  /\ confirm[k].pc = "increment"
  /\ LET id == confirm[k].id
         r  == reservations[id] IN
       /\ ~rowLocked(rowLock, r.productId)
       /\ availableStock' = incrementStock(availableStock, r.productId, r.quantity)
       /\ credited' = [credited EXCEPT ![id] = @ + 1]
  /\ confirm' = [confirm EXCEPT ![k].pc = "done", ![k].result = "Expired"]
  /\ UNCHANGED <<now, totalStock, rowLock, reservations, reserve, job, expire, cronList,
                 faults, statistics, client>>

\* lines 189-194: save status COMPLETED and return the reservation
CompleteSaveCompleted(k) ==
  /\ confirm[k].pc = "saveCompleted"
  /\ reservations' = [reservations EXCEPT ![confirm[k].id].status = COMPLETED]
  /\ confirm' = [confirm EXCEPT ![k].pc = "done", ![k].result = "Claim"]
  /\ UNCHANGED <<now, totalStock, availableStock, rowLock, credited, reserve, job, expire,
                 cronList, faults, statistics, client>>

\* a storage error thrown by the awaited call at the current step; complete
\* has no handler, the error reaches the caller
CompleteFail(k) ==
  /\ confirm[k].pc \in {"recheck", "saveExpired", "increment", "saveCompleted"}
  /\ faults < MaxFaults
  /\ faults' = faults + 1
  /\ confirm' = [confirm EXCEPT ![k].pc = "done", ![k].result = "InternalServerError"]
  /\ UNCHANGED <<now, totalStock, availableStock, rowLock, reservations, credited, reserve,
                 job, expire, cronList, statistics, client>>

\* ----------------------------------- handleExpiredReservations (cron tick)
\* lines 218-231: query the overdue ACTIVE reservations
CronTick ==
  /\ cronList = <<>>
  /\ expire[Cron] = "idle"
  /\ cronList' = expiredReservations(now)
  /\ UNCHANGED <<now, totalStock, availableStock, rowLock, reservations, credited, reserve,
                 confirm, job, expire, faults, statistics, client>>

\* ------------------------------- expireReservation (cron loop or queue job)
target(r) == IF r = Cron THEN Head(cronList) ELSE r

\* the queue hands a job to the processor after its delay has elapsed.  The
\* delay runs from the add, which comes after the instant expiresAt was
\* computed from, so the job never runs before the clock has passed dueAt.
\* A retry waits for its backoff (2s, 4s), which is below the clock's unit.
jobReadyAtDue(j, t) ==
  \/ j.state = "delayed" /\ t >= j.dueAt
  \/ j.state = "waiting"

jobReady(j, t) ==
  \/ j.state = "delayed" /\ t > j.dueAt
  \/ j.state = "waiting"

\* the cron loop calls expireReservation for the head of its list; the
\* processor takes one job at a time
called(r) ==
  IF r = Cron THEN cronList # <<>>
              ELSE /\ jobReady(job[r], now)
                   /\ \A j \in Reservers : job[j].state # "active"

\* expireReservation returned normally: next loop iteration, or job completed.
\* restored tells whether the job's call got as far as logging "expired -
\* stock restored" (lines 266-268) or returned at the status check (line 253).
returned(r) ==
  /\ cronList' = IF r = Cron THEN Tail(cronList) ELSE cronList
  /\ job' = IF r = Cron THEN job
            ELSE [job EXCEPT ![r].state = "completed",
                             ![r].restored = (expire[r] = "increment")]

\* expireReservation threw: the cron's outer catch ends the tick; Bull
\* re-queues the job until attempts are used up
thrownRetryAlways(r) ==
  /\ cronList' = IF r = Cron THEN <<>> ELSE cronList
  /\ job' = IF r = Cron THEN job
            ELSE [job EXCEPT ![r] =
                    [state |-> "waiting", attemptsMade |-> @.attemptsMade + 1,
                     dueAt |-> @.dueAt, restored |-> FALSE]]

thrown(r) ==
  /\ cronList' = IF r = Cron THEN <<>> ELSE cronList
  /\ job' = IF r = Cron THEN job
            ELSE [job EXCEPT ![r] =
                    IF @.attemptsMade + 1 < JobAttempts
                      THEN [state |-> "waiting", attemptsMade |-> @.attemptsMade + 1,
                            dueAt |-> @.dueAt, restored |-> FALSE]
                      ELSE [state |-> "failed", attemptsMade |-> @.attemptsMade + 1,
                            dueAt |-> @.dueAt, restored |-> FALSE]]

\* lines 247-254 (processor lines 10-13 for the job): findOne and the status check
ExpireFind(r) ==
  /\ expire[r] = "idle"
  /\ called(r)
  /\ IF skipExpire(target(r))
       THEN /\ returned(r)
            /\ UNCHANGED expire
       ELSE /\ expire' = [expire EXCEPT ![r] = "save"]
            /\ cronList' = cronList
            /\ job' = IF r = Cron THEN job ELSE [job EXCEPT ![r].state = "active"]
  /\ UNCHANGED <<now, totalStock, availableStock, rowLock, reservations, credited, reserve,
                 confirm, faults, statistics, client>>

\* lines 257-258: save status EXPIRED
ExpireSave(r) ==
  /\ expire[r] = "save"
  /\ reservations' = [reservations EXCEPT ![target(r)].status = EXPIRED]
  /\ expire' = [expire EXCEPT ![r] = "increment"]
  /\ UNCHANGED <<now, totalStock, availableStock, rowLock, credited, reserve, confirm, job,
                 cronList, faults, statistics, client>>

\* lines 261-268: incrementStock and return
ExpireIncrement(r) ==
  /\ expire[r] = "increment"
  /\ LET id  == target(r)
         res == reservations[id] IN
       /\ ~rowLocked(rowLock, res.productId)
       /\ availableStock' = incrementStock(availableStock, res.productId, res.quantity)
       /\ credited' = [credited EXCEPT ![id] = @ + 1]
  /\ expire' = [expire EXCEPT ![r] = "idle"]
  /\ returned(r)
  /\ UNCHANGED <<now, totalStock, rowLock, reservations, reserve, confirm, faults,
                 statistics, client>>

\* lines 269-275: a storage error at the current step is logged and rethrown;
\* limit is the number of storage errors an execution may see
failExpire(r, limit) ==
  /\ \/ expire[r] = "idle" /\ called(r)
     \/ expire[r] \in {"save", "increment"}
  /\ faults < limit
  /\ faults' = faults + 1
  /\ expire' = [expire EXCEPT ![r] = "idle"]
  /\ thrown(r)
  /\ UNCHANGED <<now, totalStock, availableStock, rowLock, reservations, credited, reserve,
                 confirm, statistics, client>>

ExpireFail(r) == failExpire(r, MaxFaults)

\* --------------------------------------------------------- getStatistics
\* reservationsRepository.countBy({ status })
countBy(status) ==
  Cardinality({id \in DOMAIN reservations : reservations[id].status = status})

\* lines 282-284: the first count query.  fewest and most keep, for the
\* record, how many rows existed at the first and at the last query of the
\* call (rows are never deleted).
StatisticsActive ==
  /\ statistics.pc = "idle"
  /\ statistics' = [statistics EXCEPT !.pc = "completed",
                                      !.active = countBy(ACTIVE),
                                      !.fewest = Cardinality(DOMAIN reservations)]
  /\ UNCHANGED <<now, totalStock, availableStock, rowLock, reservations, credited,
                 reserve, confirm, job, expire, cronList, faults, client>>

\* lines 285-287: the second count query
StatisticsCompleted ==
  /\ statistics.pc = "completed"
  /\ statistics' = [statistics EXCEPT !.pc = "expired",
                                      !.completed = countBy(COMPLETED)]
  /\ UNCHANGED <<now, totalStock, availableStock, rowLock, reservations, credited,
                 reserve, confirm, job, expire, cronList, faults, client>>

\* lines 288-292: the third count query and the return
StatisticsExpired ==
  /\ statistics.pc = "expired"
  /\ statistics' = [statistics EXCEPT !.pc = "done",
                                      !.expired = countBy(EXPIRED),
                                      !.most = Cardinality(DOMAIN reservations)]
  /\ UNCHANGED <<now, totalStock, availableStock, rowLock, reservations, credited,
                 reserve, confirm, job, expire, cronList, faults, client>>

\* ------------------------------------------------------- frontend client
ClientApis == {"fetchWithRetry", "createReservation", "completeReservation"}

\* a call of fetchWithRetry (as made by getProducts, getProduct,
\* getReservations, with maxRetries left at its default or given), or of
\* createReservation / completeReservation
ClientCall ==
  /\ client.pc = "idle"
  /\ \E api \in ClientApis, maxRetries \in 0..DefaultMaxRetries :
       client' = [client EXCEPT
                    !.pc = IF api = "fetchWithRetry" THEN "loop" ELSE "post",
                    !.api = api,
                    !.maxRetries = IF api = "fetchWithRetry" THEN maxRetries ELSE 0]
  /\ UNCHANGED <<now, totalStock, availableStock, rowLock, reservations, credited,
                 reserve, confirm, job, expire, cronList, faults, statistics>>

\* api.ts lines 98-122: one iteration of the loop of fetchWithRetry.  The
\* sleep before the next iteration changes nothing but the time.
FetchAttempt ==
  /\ client.pc = "loop"
  /\ moreAttempts(client.i, client.maxRetries)
  /\ \E answer \in Answers :
       LET sent == [client EXCEPT !.requests = @ + 1,
                                  !.responses = Append(@, answer)] IN
       client' =
         IF answer.kind = "error"
           THEN [sent EXCEPT !.lastError = answer, !.i = @ + 1]
         ELSE IF clientError(answer.status)
           THEN [sent EXCEPT !.pc = "done",
                             !.outcome = [kind |-> "returned", status |-> answer.status]]
         ELSE IF retryServerError(answer.status, client.i, client.maxRetries)
           THEN [sent EXCEPT !.i = @ + 1]
           ELSE [sent EXCEPT !.pc = "done",
                             !.outcome = [kind |-> "returned", status |-> answer.status]]
  /\ UNCHANGED <<now, totalStock, availableStock, rowLock, reservations, credited,
                 reserve, confirm, job, expire, cronList, faults, statistics>>

\* api.ts line 125: throw lastError || new ApiRequestError(..., 500)
FetchGiveUp ==
  /\ client.pc = "loop"
  /\ ~moreAttempts(client.i, client.maxRetries)
  /\ client' = [client EXCEPT
                  !.pc = "done",
                  !.outcome = IF client.lastError = NoAnswer
                                THEN [kind |-> "thrown", status |-> 500]
                                ELSE [kind |-> "thrown",
                                      status |-> client.lastError.status]]
  /\ UNCHANGED <<now, totalStock, availableStock, rowLock, reservations, credited,
                 reserve, confirm, job, expire, cronList, faults, statistics>>

\* api.ts lines 249-306: createReservation / completeReservation call
\* fetchWithTimeout once and hand the response to handleResponse, which
\* throws ApiRequestError for a response that is not ok
PostOnce ==
  /\ client.pc = "post"
  /\ \E answer \in Answers :
       client' = [client EXCEPT
                    !.pc = "done",
                    !.requests = @ + 1,
                    !.responses = Append(@, answer),
                    !.outcome =
                      IF answer.kind = "response" /\ ok(answer.status)
                        THEN [kind |-> "returned", status |-> answer.status]
                        ELSE [kind |-> "thrown", status |-> answer.status]]
  /\ UNCHANGED <<now, totalStock, availableStock, rowLock, reservations, credited,
                 reserve, confirm, job, expire, cronList, faults, statistics>>

\* ------------------------------------------------------------------ clock
pending ==
  \/ \E id \in DOMAIN reservations :
       reservations[id].status = ACTIVE /\ reservations[id].expiresAt >= now
  \/ \E c \in Reservers : job[c].state = "delayed" /\ job[c].dueAt >= now

\* the clock matters only while a deadline or a job delay is still ahead
Tick ==
  /\ pending
  /\ now' = now + 1
  /\ UNCHANGED <<totalStock, availableStock, rowLock, reservations, credited,
                 reserve, confirm, job, expire, cronList, faults, statistics, client>>

\* ------------------------------------------------------------------- Next
\* getStatistics and the frontend client write nothing that the actions
\* below read; they run in specifications of their own (StatisticsSpec,
\* FetchSpec).
Next ==
  \/ \E c \in Reservers : CreateCall(c)
  \/ \E c \in Reservers : CreateLock(c)
  \/ \E c \in Reservers : CreateDeduct(c)
  \/ \E c \in Reservers : CreateSave(c)
  \/ \E c \in Reservers : CreateCommit(c)
  \/ \E c \in Reservers : CreateSchedule(c)
  \/ \E c \in Reservers : CreateFail(c)
  \/ \E k \in Confirmers : CompleteFind(k)
  \/ \E k \in Confirmers : CompleteRecheck(k)
  \/ \E k \in Confirmers : CompleteSaveExpired(k)
  \/ \E k \in Confirmers : CompleteIncrement(k)
  \/ \E k \in Confirmers : CompleteSaveCompleted(k)
  \/ \E k \in Confirmers : CompleteFail(k)
  \/ CronTick
  \/ \E r \in Runners : ExpireFind(r)
  \/ \E r \in Runners : ExpireSave(r)
  \/ \E r \in Runners : ExpireIncrement(r)
  \/ \E r \in Runners : ExpireFail(r)
  \/ Tick

Spec == Init /\ [][Next]_vars

\* ================================================================ claims
RECURSIVE sumOver(_, _)
sumOver(S, f) ==
  IF S = {} THEN 0
  ELSE LET x == CHOOSE y \in S : TRUE IN f[x] + sumOver(S \ {x}, f)

reservationsOf(p) == {id \in DOMAIN reservations : reservations[id].productId = p}

\* quantity held by reservations of product p whose status is in statuses
heldQuantity(p, statuses) ==
  sumOver({id \in reservationsOf(p) : reservations[id].status \in statuses},
          [id \in DOMAIN reservations |-> reservations[id].quantity])

\* quantity credited back to product p by all incrementStock calls so far
creditedQuantity(p) ==
  sumOver(reservationsOf(p),
          [id \in DOMAIN reservations |-> credited[id] * reservations[id].quantity])

validCall(c) == reserve[c].productId \in ProductIds /\ reserve[c].quantity >= 1

\* C1: in every reachable state every product's availableStock is >= 0.
StockNeverNegative == \A p \in ProductIds : availableStock[p] >= 0

\* C1 witness: two create calls contended for the last units of a product;
\* one got the reservation, the other was turned away, and the stock is 0.
StockNeverNegativeWitness ==
  \E c, d \in Reservers :
    /\ c # d
    /\ validCall(c) /\ validCall(d)
    /\ reserve[c].productId = reserve[d].productId
    /\ reserve[c].result = "Claim"
    /\ reserve[d].pc = "done" /\ reserve[d].result # "Claim" /\ reserve[d].failedAt = "none"
    /\ reservations[c].status = ACTIVE
    /\ availableStock[reserve[c].productId] = 0

\* C2: no oversell: for every product the quantities of its ACTIVE and
\* COMPLETED reservations sum to at most its totalStock.
NoOversell ==
  \A p \in ProductIds : heldQuantity(p, {ACTIVE, COMPLETED}) <= totalStock[p]

\* C3: every product's availableStock never exceeds its totalStock.
StockAtMostTotal == \A p \in ProductIds : availableStock[p] <= totalStock[p]

\* C4: exactly-once credit: the stock is never incremented twice for one
\* reservation, however many expireReservation calls overlap, and once
\* nothing is running an EXPIRED reservation has been credited once (storage
\* errors set aside).
ExactlyOnceCredit ==
  \A id \in DOMAIN reservations :
    /\ credited[id] <= 1
    /\ (faults = 0 /\ reservations[id].status = EXPIRED
          /\ \A r \in Runners : expire[r] = "idle"
          /\ \A k \in Confirmers : confirm[k].pc \in {"idle", "done"})
         => credited[id] = 1

\* C5: a reservation that a complete call returned as COMPLETED is never
\* marked EXPIRED and never has its quantity credited back.
CompletedNeverReleased ==
  \A k \in Confirmers :
    confirm[k].result = "Claim" =>
      /\ reservations[confirm[k].id].status # EXPIRED
      /\ credited[confirm[k].id] = 0

\* C6: COMPLETED and EXPIRED are terminal: no step changes the stored status
\* of a reservation that is no longer ACTIVE.
TerminalStatus ==
  [][\A id \in DOMAIN reservations :
       reservations[id].status # ACTIVE =>
         reservations'[id].status = reservations[id].status]_vars

\* ------------------------------------------------------- fair executions
\* The cron keeps ticking and each awaited call of a tick returns, the clock
\* advances, and an open create transaction runs to its end.  Nothing is
\* assumed of the queue job or of complete requests.
CronStep ==
  \/ CronTick
  \/ ExpireFind(Cron)
  \/ ExpireSave(Cron)
  \/ ExpireIncrement(Cron)

TransactionStep(c) ==
  \/ CreateLock(c)
  \/ CreateDeduct(c)
  \/ CreateSave(c)
  \/ CreateCommit(c)

LiveSpec ==
  /\ Init
  /\ [][Next]_vars
  /\ WF_vars(Tick)
  /\ WF_vars(CronStep)
  /\ \A c \in Reservers : WF_vars(TransactionStep(c))

finishedCall(c) == reserve[c].pc = "done"

\* C8: create calls on one product are serialized: with no earlier credit,
\* the calls that returned a reservation hold at most the product's stock,
\* and every other valid call that finished without a storage error
\* returned InsufficientStock.
SerializedReserve ==
  \A p \in ProductIds :
    (faults = 0 /\ \A id \in Reservers : credited[id] = 0) =>
      /\ sumOver({c \in Reservers : reserve[c].productId = p /\ reserve[c].result = "Claim"},
                 [c \in Reservers |-> reserve[c].quantity]) <= totalStock[p]
      /\ \A c \in Reservers :
           (finishedCall(c) /\ validCall(c) /\ reserve[c].productId = p
              /\ reserve[c].result # "Claim")
             => reserve[c].result = "InsufficientStock"

quiescent ==
  /\ \A r \in Runners : expire[r] = "idle"
  /\ cronList = <<>>
  /\ \A c \in Reservers : job[c].state \in {"none", "completed", "failed"}
  /\ \A c \in Reservers : reserve[c].pc \in {"idle", "done"}
  /\ \A k \in Confirmers : confirm[k].pc \in {"idle", "done"}

\* C9: stock restoration: when the only reservation ever made on a product
\* was never the target of complete and has been expired, with no storage
\* error and nothing left running, the product's availableStock is back at
\* the value it had before the reservation.
StockRestored ==
  \A c \in Reservers :
    ( /\ quiescent
      /\ faults = 0
      /\ Exists(c) /\ reservations[c].status = EXPIRED
      /\ \A d \in Reservers \ {c} : reserve[d].pc = "idle"
      /\ \A k \in Confirmers : confirm[k].pc = "idle" )
    => availableStock[reservations[c].productId] = totalStock[reservations[c].productId]

\* C10: create is all-or-nothing: the committed decrements of a product are
\* exactly the quantities of its reservation rows (credits set aside), a row
\* is visible only once its transaction has committed, and a call that
\* failed left no row.
AllOrNothing ==
  /\ \A p \in ProductIds :
       totalStock[p] - availableStock[p] + creditedQuantity(p)
         = heldQuantity(p, ReservationStatus)
  /\ \A c \in Reservers :
       /\ Exists(c) => reserve[c].pc \in {"schedule", "done"}
       /\ finishedCall(c) => (Exists(c) <=> reserve[c].result = "Claim")

\* C10 witness: a create call failed at commitTransaction, after its
\* decrement and its row had been written in the transaction; no row exists
\* and the stock is untouched.
AllOrNothingWitness ==
  \E c \in Reservers :
    /\ reserve[c].failedAt = "commit"
    /\ ~Exists(c)
    /\ availableStock[reserve[c].productId] = totalStock[reserve[c].productId]

\* expireReservation is between its findOne and its return for reservation id
resolving(id) ==
  \E r \in Runners : expire[r] \in {"save", "increment"} /\ target(r) = id

\* C11: confirm after expiry: a complete call that loads a reservation whose
\* expiresAt has passed does not end with any answer other than Expired, and
\* once such a call has answered Expired and no expireReservation call is
\* still working on the reservation, its quantity has been credited exactly
\* once (storage errors set aside).
ConfirmAfterExpiry ==
  /\ [][\A k \in Confirmers :
          ( /\ confirm[k].pc = "idle" /\ confirm'[k].pc # "idle"
            /\ Exists(confirm'[k].id)
            /\ now > reservations[confirm'[k].id].expiresAt )
          => confirm'[k].result \in {"none", "Expired"}]_vars
  /\ [](\A k \in Confirmers :
          ( /\ confirm[k].pc = "done" /\ confirm[k].result = "Expired"
            /\ faults = 0
            /\ ~resolving(confirm[k].id) )
          => credited[confirm[k].id] = 1)

\* C11, the credit half alone: a complete call that answered Expired leaves
\* the reservation credited at most once.
ExpiredConfirmCreditsOnce ==
  \A k \in Confirmers :
    (confirm[k].pc = "done" /\ confirm[k].result = "Expired")
      => credited[confirm[k].id] <= 1

\* C12: a create call for an existing product that finds fewer units than it
\* asks for answers InsufficientStock, and that step changes neither any
\* stock nor any reservation row.
InsufficientStockReported ==
  [][\A c \in Reservers :
       ( /\ reserve[c].pc = "deduct" /\ reserve'[c].pc = "done"
         /\ reserve[c].product < reserve[c].quantity
         /\ faults' = faults )
       => /\ reserve'[c].result = "InsufficientStock"
          /\ availableStock' = availableStock
          /\ reservations' = reservations]_vars

\* C13: a create call for a product id that has no row answers NotFound; no
\* reservation row is written, no stock changes and no job is added.
MissingProductReported ==
  [][\A c \in Reservers :
       ( /\ reserve[c].pc = "lock" /\ reserve'[c].pc = "done"
         /\ reserve[c].productId \notin ProductIds
         /\ faults' = faults )
       => /\ reserve'[c].result = "NotFound"
          /\ availableStock' = availableStock
          /\ reservations' = reservations
          /\ job' = job]_vars

\* C14: a create call with a quantity below 1 ends at once with
\* InvalidQuantity: no transaction is started, no rollback is attempted, no
\* row lock, stock, reservation row or job changes, and the call never gets
\* a reservation.
InvalidQuantityRejected ==
  /\ [][\A c \in Reservers :
          ( /\ reserve[c].pc = "idle" /\ reserve'[c].pc # "idle"
            /\ reserve'[c].quantity < 1 )
          => /\ reserve'[c].pc = "done"
             /\ reserve'[c].result = "InvalidQuantity"
             /\ ~reserve'[c].txActive
             /\ reserve'[c].rollbacks = 0
             /\ UNCHANGED <<availableStock, rowLock, reservations, job>>]_vars
  /\ [](\A c \in Reservers :
          (reserve[c].pc # "idle" /\ reserve[c].quantity < 1)
            => /\ reserve[c].pc = "done"
               /\ reserve[c].result = "InvalidQuantity"
               /\ ~Exists(c)
               /\ job[c].state = "none"
               /\ \A p \in ProductIds : rowLock[p] # c)

\* C14 witness: a create call with quantity 0 on an existing product has been
\* rejected while the product still has its whole stock and no lock.
InvalidQuantityRejectedWitness ==
  \E c \in Reservers :
    /\ reserve[c].result = "InvalidQuantity"
    /\ reserve[c].productId \in ProductIds
    /\ reserve[c].quantity = 0
    /\ ~reserve[c].txActive /\ reserve[c].rollbacks = 0
    /\ availableStock[reserve[c].productId] = totalStock[reserve[c].productId]
    /\ rowLock[reserve[c].productId] = NoOne
    /\ ~Exists(c) /\ job[c].state = "none"

\* C15: a failed queue.add never fails create: the step after the commit
\* always answers with the reservation and leaves the committed decrement
\* and row in place, every call whose row exists answers with it, and under
\* LiveSpec a reservation left without a job still leaves ACTIVE.
ScheduleFailureHarmless ==
  /\ [][\A c \in Reservers :
          (reserve[c].pc = "schedule" /\ reserve'[c].pc = "done")
          => /\ reserve'[c].result = "Claim"
             /\ Exists(c)
             /\ availableStock' = availableStock
             /\ reservations' = reservations]_vars
  /\ [](\A c \in Reservers :
          (finishedCall(c) /\ Exists(c)) => reserve[c].result = "Claim")
  /\ \A c \in Reservers :
       ( /\ finishedCall(c) /\ job[c].state = "none"
         /\ Exists(c) /\ reservations[c].status = ACTIVE )
         ~> (Exists(c) /\ reservations[c].status # ACTIVE)

\* C15 witness: a create call returned its reservation although its job was
\* never added; no complete request was made, and the cron tick has expired
\* the reservation and given the stock back.
ScheduleFailureHarmlessWitness ==
  \E c \in Reservers :
    /\ finishedCall(c) /\ reserve[c].result = "Claim"
    /\ job[c].state = "none"
    /\ reservations[c].status = EXPIRED
    /\ credited[c] = 1
    /\ availableStock[reservations[c].productId] = totalStock[reservations[c].productId]
    /\ \A k \in Confirmers : confirm[k].pc = "idle"
    /\ \A d \in Reservers \ {c} : reserve[d].pc = "idle"

\* ----------------------------------------- a batch of overdue reservations
\* A product seeded with one unit more than MaxStock, so that two
\* reservations can be ACTIVE and overdue in the same cron tick; create
\* requests, queue jobs, the cron tick and the clock run, no complete request
\* is made.
BatchInit == seeded([p \in ProductIds |-> MaxStock + 1])

BatchNext ==
  \/ \E c \in Reservers : CreateCall(c)
  \/ \E c \in Reservers : CreateLock(c)
  \/ \E c \in Reservers : CreateDeduct(c)
  \/ \E c \in Reservers : CreateSave(c)
  \/ \E c \in Reservers : CreateCommit(c)
  \/ \E c \in Reservers : CreateSchedule(c)
  \/ \E c \in Reservers : CreateFail(c)
  \/ CronTick
  \/ \E r \in Runners : ExpireFind(r)
  \/ \E r \in Runners : ExpireSave(r)
  \/ \E r \in Runners : ExpireIncrement(r)
  \/ \E r \in Runners : ExpireFail(r)
  \/ Tick

BatchSpec == BatchInit /\ [][BatchNext]_vars

\* a step in which the expireReservation call made by the cron loop throws
cronCallFails ==
  /\ cronList # <<>>
  /\ faults' = faults + 1
  /\ reserve' = reserve /\ confirm' = confirm /\ job' = job

\* C16: when expireReservation throws for one reservation of the tick's
\* list, the tick goes on with the reservations that follow it in the list.
SweepContinues == [][cronCallFails => cronList' = Tail(cronList)]_vars

\* a step taken by caller r of expireReservation from the start of a call,
\* other than a storage error
callStarts(r) ==
  /\ expire[r] = "idle" /\ called(r)
  /\ faults' = faults
  /\ \/ expire'[r] # expire[r]
     \/ IF r = Cron THEN cronList' # cronList ELSE job'[r] # job[r]

\* C17: expireReservation called for a reservation that does not exist or is
\* no longer ACTIVE returns from its status check: the call is over after
\* that step, and no reservation row, stock or credit has changed.
ExpireSkipsResolved ==
  [][\A r \in Runners :
       ( /\ callStarts(r)
         /\ \/ ~Exists(target(r))
            \/ reservations[target(r)].status \in {COMPLETED, EXPIRED} )
       => /\ expire'[r] = "idle"
          /\ reservations' = reservations
          /\ availableStock' = availableStock
          /\ credited' = credited]_vars

\* C17 witness: a reservation was completed before its deadline; its queue
\* job ran afterwards and returned at the status check; the reservation is
\* still COMPLETED, nothing was credited and the stock is still reduced.
ExpireSkipsResolvedWitness ==
  \E c \in Reservers, k \in Confirmers :
    /\ confirm[k].id = c /\ confirm[k].result = "Claim"
    /\ job[c].state = "completed" /\ ~job[c].restored
    /\ reservations[c].status = COMPLETED
    /\ credited[c] = 0
    /\ availableStock[reservations[c].productId]
         = totalStock[reservations[c].productId] - reservations[c].quantity
    /\ \A d \in Reservers \ {c} : reserve[d].pc = "idle"

\* C18: a complete call that loads an ACTIVE reservation whose expiresAt has
\* not passed takes the completing branch, and its save answers with the
\* reservation as COMPLETED, stores that status and changes no stock and no
\* credit.
CompleteConsumes ==
  [][\A k \in Confirmers :
       /\ ( /\ confirm[k].pc = "idle" /\ confirm'[k].pc # "idle"
            /\ Exists(confirm'[k].id)
            /\ reservations[confirm'[k].id].status = ACTIVE
            /\ now <= reservations[confirm'[k].id].expiresAt )
          => confirm'[k].pc = "saveCompleted"
       /\ ( /\ confirm[k].pc = "saveCompleted" /\ confirm'[k].pc = "done"
            /\ faults' = faults )
          => /\ confirm'[k].result = "Claim"
             /\ reservations'[confirm[k].id].status = COMPLETED
             /\ availableStock' = availableStock
             /\ credited' = credited]_vars

\* C18 witness: a reservation was completed exactly at its deadline and
\* nothing else touched it: it is COMPLETED, was never credited, and the
\* product's stock is still reduced by its quantity.
CompleteConsumesWitness ==
  \E c \in Reservers, k \in Confirmers :
    /\ confirm[k].id = c /\ confirm[k].result = "Claim"
    /\ reservations[c].status = COMPLETED
    /\ now = reservations[c].expiresAt
    /\ job[c].state = "delayed"
    /\ credited[c] = 0
    /\ availableStock[reservations[c].productId]
         = totalStock[reservations[c].productId] - reservations[c].quantity
    /\ \A d \in Reservers \ {c} : reserve[d].pc = "idle"

\* C19: a complete call for an id without a reservation row answers NotFound
\* and one for a COMPLETED or EXPIRED reservation answers AlreadyResolved;
\* either call is over after its first step, which changes no reservation
\* row, no stock and no credit.
CompleteRejectsResolved ==
  [][\A k \in Confirmers :
       (confirm[k].pc = "idle" /\ confirm'[k].pc # "idle") =>
         /\ ~Exists(confirm'[k].id)
              => /\ confirm'[k].pc = "done"
                 /\ confirm'[k].result = "NotFound"
                 /\ UNCHANGED <<reservations, availableStock, credited>>
         /\ ( /\ Exists(confirm'[k].id)
              /\ reservations[confirm'[k].id].status \in {COMPLETED, EXPIRED} )
              => /\ confirm'[k].pc = "done"
                 /\ confirm'[k].result = "AlreadyResolved"
                 /\ UNCHANGED <<reservations, availableStock, credited>>]_vars

\* C19 witness: complete was called for a reservation that the cron tick or
\* the queue job had expired and credited; the call was turned away, the
\* reservation is still EXPIRED, credited once, and the stock is whole.
CompleteRejectsResolvedWitness ==
  \E c \in Reservers, k \in Confirmers :
    /\ confirm[k].id = c /\ confirm[k].result = "AlreadyResolved"
    /\ reservations[c].status = EXPIRED
    /\ credited[c] = 1
    /\ availableStock[reservations[c].productId] = totalStock[reservations[c].productId]
    /\ \A d \in Reservers \ {c} : reserve[d].pc = "idle"

\* C19 witness, the other answer: complete was called for an id that no
\* create call had made a row for.
CompleteRejectsMissing ==
  \E k \in Confirmers :
    /\ confirm[k].result = "NotFound"
    /\ ~Exists(confirm[k].id)
    /\ \A p \in ProductIds : availableStock[p] = totalStock[p]

\* ------------------------------------------ expireReservation in sequence
\* Calls of expireReservation follow one another: a caller starts its call
\* only while no other caller is inside expireReservation.  Create requests,
\* queue jobs, the cron tick and the clock run; no complete request is made.
oneAtATime(r) == \A other \in Runners \ {r} : expire[other] = "idle"

SeqNext ==
  \/ \E c \in Reservers : CreateCall(c)
  \/ \E c \in Reservers : CreateLock(c)
  \/ \E c \in Reservers : CreateDeduct(c)
  \/ \E c \in Reservers : CreateSave(c)
  \/ \E c \in Reservers : CreateCommit(c)
  \/ \E c \in Reservers : CreateSchedule(c)
  \/ \E c \in Reservers : CreateFail(c)
  \/ CronTick
  \/ \E r \in Runners : oneAtATime(r) /\ ExpireFind(r)
  \/ \E r \in Runners : ExpireSave(r)
  \/ \E r \in Runners : ExpireIncrement(r)
  \/ \E r \in Runners : oneAtATime(r) /\ ExpireFail(r)
  \/ Tick

SeqSpec == Init /\ [][SeqNext]_vars

\* C20: expireReservation repeated in sequence: under SeqSpec a reservation
\* is never credited twice; with no storage error, once a call for it has
\* returned (it is EXPIRED, or its job is completed, and no call is working
\* on it) it is EXPIRED and credited exactly once; and a call that starts on
\* an EXPIRED reservation changes no row, no stock and no credit.
SequentialExpireIdempotent ==
  /\ [](\A id \in DOMAIN reservations :
          /\ credited[id] <= 1
          /\ ( /\ faults = 0 /\ ~resolving(id)
               /\ \/ reservations[id].status = EXPIRED
                  \/ job[id].state = "completed" )
             => (reservations[id].status = EXPIRED /\ credited[id] = 1))
  /\ [][\A r \in Runners :
          ( /\ callStarts(r)
            /\ Exists(target(r))
            /\ reservations[target(r)].status = EXPIRED )
          => UNCHANGED <<reservations, availableStock, credited>>]_vars

\* C20 witness: the cron tick expired and credited a reservation, then its
\* queue job called expireReservation for it and returned at the status
\* check; the reservation is EXPIRED, credited once, the stock is whole.
SequentialExpireIdempotentWitness ==
  \E c \in Reservers :
    /\ Exists(c) /\ reservations[c].status = EXPIRED
    /\ job[c].state = "completed" /\ ~job[c].restored
    /\ credited[c] = 1
    /\ faults = 0
    /\ availableStock[reservations[c].productId] = totalStock[reservations[c].productId]
    /\ \A d \in Reservers \ {c} : reserve[d].pc = "idle"

\* C21: exclusive access per product: while a create transaction holds a
\* product's row lock, the product's committed availableStock is the value
\* the transaction read, and the only step that changes it is that
\* transaction's own commit, which ends the hold; no incrementStock and no
\* other create's check or decrement takes effect in between.
ExclusiveAccess ==
  /\ [](\A c \in Reservers :
          reserve[c].pc \in {"deduct", "save", "commit"} =>
            /\ rowLock[reserve[c].productId] = c
            /\ reserve[c].product = availableStock[reserve[c].productId]
            /\ \A d \in Reservers \ {c} :
                 reserve[d].productId = reserve[c].productId
                   => reserve[d].pc \notin {"deduct", "save", "commit"})
  /\ [][\A p \in ProductIds :
          (rowLock[p] # NoOne /\ availableStock'[p] # availableStock[p])
          => /\ reserve[rowLock[p]].pc = "commit"
             /\ reserve'[rowLock[p]].pc = "schedule"
             /\ rowLock'[p] = NoOne
             /\ credited' = credited]_vars

\* C21 witness: a create transaction holds the row lock of a product while
\* an expireReservation call that has already saved EXPIRED for a
\* reservation of that product has not yet been able to credit it.
ExclusiveAccessWitness ==
  \E c \in Reservers, r \in Runners :
    /\ reserve[c].pc = "deduct"
    /\ rowLock[reserve[c].productId] = c
    /\ expire[r] = "increment"
    /\ reservations[target(r)].productId = reserve[c].productId
    /\ credited[target(r)] = 0

\* ------------------------------------------------------------ two products
\* Two seeded products, so that requests on different rows can overlap.
\* Create and complete requests, queue jobs, the cron tick and the clock
\* run; no storage error is injected.
ProductPair == {"p1", "p2"}

PairInit == seeded([p \in ProductPair |-> MaxStock])

PairNext ==
  \/ \E c \in Reservers : CreateCall(c)
  \/ \E c \in Reservers : CreateLock(c)
  \/ \E c \in Reservers : CreateDeduct(c)
  \/ \E c \in Reservers : CreateSave(c)
  \/ \E c \in Reservers : CreateCommit(c)
  \/ \E c \in Reservers : CreateSchedule(c)
  \/ \E k \in Confirmers : CompleteFind(k)
  \/ \E k \in Confirmers : CompleteRecheck(k)
  \/ \E k \in Confirmers : CompleteSaveExpired(k)
  \/ \E k \in Confirmers : CompleteIncrement(k)
  \/ \E k \in Confirmers : CompleteSaveCompleted(k)
  \/ CronTick
  \/ \E r \in Runners : ExpireFind(r)
  \/ \E r \in Runners : ExpireSave(r)
  \/ \E r \in Runners : ExpireIncrement(r)
  \/ Tick

PairSpec == PairInit /\ [][PairNext]_vars

\* the product a reservation was made on
productOf(id) == reservations[id].productId

\* C22: requests on different products do not block one another: a step of
\* create, complete or expireReservation can always be taken unless the row
\* lock of the product it works on is held by a create transaction; the
\* lock of any other product never keeps it waiting.
NoCrossBlocking ==
  /\ \A c \in Reservers :
       /\ ( /\ reserve[c].pc = "lock"
            /\ reserve[c].productId \in DOMAIN rowLock
                 => rowLock[reserve[c].productId] = NoOne )
          => ENABLED CreateLock(c)
       /\ reserve[c].pc = "deduct" => ENABLED CreateDeduct(c)
       /\ reserve[c].pc = "save" => ENABLED CreateSave(c)
       /\ reserve[c].pc = "commit" => ENABLED CreateCommit(c)
  /\ \A k \in Confirmers :
       /\ confirm[k].pc = "recheck" => ENABLED CompleteRecheck(k)
       /\ confirm[k].pc = "saveExpired" => ENABLED CompleteSaveExpired(k)
       /\ confirm[k].pc = "saveCompleted" => ENABLED CompleteSaveCompleted(k)
       /\ ( /\ confirm[k].pc = "increment"
            /\ rowLock[productOf(confirm[k].id)] = NoOne )
          => ENABLED CompleteIncrement(k)
  /\ \A r \in Runners :
       /\ expire[r] = "save" => ENABLED ExpireSave(r)
       /\ ( /\ expire[r] = "increment"
            /\ rowLock[productOf(target(r))] = NoOne )
          => ENABLED ExpireIncrement(r)

\* C22 witness: one create transaction holds the row lock of a product
\* while a create on the other product has locked its own row and written
\* its decrement.
NoCrossBlockingWitness ==
  \E c, d \in Reservers :
    /\ c # d
    /\ reserve[c].pc \in {"deduct", "save", "commit"}
    /\ reserve[d].pc \in {"save", "commit"}
    /\ reserve[c].productId # reserve[d].productId
    /\ rowLock[reserve[c].productId] = c
    /\ rowLock[reserve[d].productId] = d

\* C23: a release is never left half-done: in every state where nothing is
\* running and no job is waiting, a reservation stored as EXPIRED has had
\* its quantity credited, whatever storage errors occurred on the way.
NoHalfRelease ==
  \A id \in DOMAIN reservations :
    (quiescent /\ reservations[id].status = EXPIRED) => credited[id] >= 1

\* C24: the queue job is added strictly after the commit: the step that adds
\* a job is taken by a create call whose reservation row is already stored,
\* whose transaction is over and which holds no row lock; and a job exists
\* only for a stored reservation, never for a call that was turned away or
\* rolled back.
ScheduleAfterCommit ==
  /\ [][\A c \in Reservers :
          (job[c].state = "none" /\ job'[c].state # "none")
          => /\ Exists(c)
             /\ reservations[c].status \in ReservationStatus
             /\ ~reserve[c].txActive
             /\ \A p \in DOMAIN rowLock : rowLock[p] # c
             /\ job'[c].state = "delayed"
             /\ UNCHANGED <<reservations, availableStock, rowLock>>]_vars
  /\ [](\A c \in Reservers :
          /\ job[c].state # "none" => (Exists(c) /\ reserve[c].result = "Claim")
          /\ (finishedCall(c) /\ reserve[c].result # "Claim") => job[c].state = "none")

\* C24 witness: one create call committed and its job is queued; another
\* call on the same product was turned away after the commit and has no job;
\* no row lock is held.
ScheduleAfterCommitWitness ==
  \E c, d \in Reservers :
    /\ c # d
    /\ job[c].state = "delayed" /\ Exists(c)
    /\ validCall(d) /\ finishedCall(d) /\ reserve[d].result # "Claim"
    /\ reserve[d].rollbacks >= 1
    /\ ~Exists(d) /\ job[d].state = "none"
    /\ \A p \in DOMAIN rowLock : rowLock[p] = NoOne

\* --------------------------------------------------- a job that keeps failing
\* The calls made by queue jobs may meet as many storage errors as a job has
\* attempts, so that a job can use all of them.  Create requests, queue
\* jobs, the cron tick and the clock run; no complete request is made and
\* nothing else fails.
RetryNext ==
  \/ \E c \in Reservers : CreateCall(c)
  \/ \E c \in Reservers : CreateLock(c)
  \/ \E c \in Reservers : CreateDeduct(c)
  \/ \E c \in Reservers : CreateSave(c)
  \/ \E c \in Reservers : CreateCommit(c)
  \/ \E c \in Reservers : CreateSchedule(c)
  \/ CronTick
  \/ \E r \in Runners : ExpireFind(r)
  \/ \E r \in Runners : ExpireSave(r)
  \/ \E r \in Runners : ExpireIncrement(r)
  \/ \E c \in Reservers : failExpire(c, JobAttempts)
  \/ Tick

RetrySpec == Init /\ [][RetryNext]_vars

\* C25: the queue job is bounded: a job never counts more than JobAttempts
\* failed attempts, it is waiting for a retry only after a failure and with
\* attempts left, it runs only with attempts left, and it is failed exactly
\* when JobAttempts attempts have failed; a finished job (completed or
\* failed) never changes or calls again; and the step in which an attempt
\* fails changes nothing but that job, its own call and the error count.
BoundedRetries ==
  /\ [](\A c \in Reservers :
          /\ job[c].attemptsMade <= JobAttempts
          /\ job[c].state \in {"none", "delayed"} => job[c].attemptsMade = 0
          /\ job[c].state = "waiting" =>
               (job[c].attemptsMade >= 1 /\ job[c].attemptsMade < JobAttempts)
          /\ job[c].state = "active" => job[c].attemptsMade < JobAttempts
          /\ job[c].state = "failed" <=> job[c].attemptsMade = JobAttempts
          /\ job[c].state \in {"completed", "failed"} => expire[c] = "idle")
  /\ [][\A c \in Reservers :
          /\ job[c].state \in {"completed", "failed"} => job'[c] = job[c]
          /\ job'[c].attemptsMade # job[c].attemptsMade
             => /\ job'[c].attemptsMade = job[c].attemptsMade + 1
                /\ faults' = faults + 1
                /\ \A d \in Reservers \ {c} :
                     job'[d] = job[d] /\ expire'[d] = expire[d]
                /\ expire'[Cron] = expire[Cron]
                /\ UNCHANGED <<reserve, confirm, reservations, availableStock,
                               credited, cronList, rowLock>>]_vars

\* C25 witness: a job failed at every one of its attempts and was dropped;
\* the create call had returned its reservation long before, and the cron
\* tick expired and credited the reservation.
BoundedRetriesWitness ==
  \E c \in Reservers :
    /\ job[c].state = "failed" /\ job[c].attemptsMade = JobAttempts
    /\ faults = JobAttempts
    /\ reserve[c].result = "Claim"
    /\ reservations[c].status = EXPIRED
    /\ credited[c] = 1

\* the step in which a cron tick's query returns a list that is not empty
cronQueryReturns == cronList = <<>> /\ cronList' # <<>>

\* C26 as amended: the cron tick's query at time now returns exactly the
\* reservations that are ACTIVE with expiresAt strictly before now; a
\* reservation whose expiresAt equals now is not returned, nor is any
\* COMPLETED, EXPIRED or not yet due one.
CronQueryStrict ==
  [][cronQueryReturns =>
       \A id \in Reservers :
         (\E i \in DOMAIN cronList' : cronList'[i] = id)
           <=> ( /\ Exists(id)
                 /\ reservations[id].status = ACTIVE
                 /\ reservations[id].expiresAt < now )]_vars

\* C26 as stated: the query returns exactly the ACTIVE reservations with
\* expiresAt at or before now, one whose expiresAt equals now included.
CronQueryAtDeadline ==
  [][cronQueryReturns =>
       \A id \in Reservers :
         (\E i \in DOMAIN cronList' : cronList'[i] = id)
           <=> ( /\ Exists(id)
                 /\ reservations[id].status = ACTIVE
                 /\ reservations[id].expiresAt <= now )]_vars

\* C26 witness: a tick's query has just returned the one overdue ACTIVE
\* reservation and left out another ACTIVE one whose expiresAt is now.
CronQueryStrictWitness ==
  \E c, d \in Reservers :
    /\ cronList = <<c>> /\ expire[Cron] = "idle"
    /\ reservations[c].status = ACTIVE /\ reservations[c].expiresAt < now
    /\ Exists(d)
    /\ reservations[d].status = ACTIVE /\ reservations[d].expiresAt = now

\* the expireReservation call made by the cron loop returns
cronCallReturns ==
  cronList # <<>> /\ cronList' = Tail(cronList) /\ faults' = faults

\* C27: per-tick postcondition: every reservation of the tick's list is no
\* longer ACTIVE when the loop's call for it returns (so none is when the
\* list is used up), and when the cron's call is the one that credits, it
\* adds the reservation's quantity to the stock of the reservation's own
\* product and to no other.
TickResolvesList ==
  /\ [][cronCallReturns =>
          /\ Exists(Head(cronList))
          /\ reservations'[Head(cronList)].status # ACTIVE]_vars
  /\ [][(cronCallReturns /\ expire[Cron] = "increment") =>
          LET id == Head(cronList) IN
            /\ reservations[id].status # ACTIVE
            /\ credited'[id] = credited[id] + 1
            /\ \A p \in DOMAIN availableStock :
                 availableStock'[p] =
                   IF p = reservations[id].productId
                     THEN availableStock[p] + reservations[id].quantity
                     ELSE availableStock[p]]_vars
  /\ [](expire[Cron] \in {"save", "increment"} => cronList # <<>>)

\* C27 witness: two reservations on different products had no job; one cron
\* tick found both overdue and has finished: both are EXPIRED, credited
\* once, and each product has its whole stock again.
TickResolvesListWitness ==
  \E c, d \in Reservers :
    /\ Exists(c) /\ Exists(d)
    /\ reservations[c].productId # reservations[d].productId
    /\ reservations[c].expiresAt = reservations[d].expiresAt
    /\ reservations[c].status = EXPIRED /\ reservations[d].status = EXPIRED
    /\ job[c].state = "none" /\ job[d].state = "none"
    /\ credited[c] = 1 /\ credited[d] = 1
    /\ \A p \in DOMAIN availableStock : availableStock[p] = totalStock[p]
    /\ \A k \in Confirmers : confirm[k].pc = "idle"
    /\ cronList = <<>> /\ expire[Cron] = "idle"

\* ------------------------------------------------- two complete requests
\* Two complete requests may be made next to one create request, its queue
\* job, the cron tick and the clock; no storage error is injected.
ConfirmerPair == {"k1", "k2"}
FirstReserver == {ReserverOrder[1]}

TwoCallsInit == started([p \in ProductIds |-> MaxStock], ConfirmerPair)

TwoCallsNext ==
  \/ \E c \in FirstReserver : CreateCall(c)
  \/ \E c \in FirstReserver : CreateLock(c)
  \/ \E c \in FirstReserver : CreateDeduct(c)
  \/ \E c \in FirstReserver : CreateSave(c)
  \/ \E c \in FirstReserver : CreateCommit(c)
  \/ \E c \in FirstReserver : CreateSchedule(c)
  \/ \E k \in ConfirmerPair : CompleteFind(k)
  \/ \E k \in ConfirmerPair : CompleteRecheck(k)
  \/ \E k \in ConfirmerPair : CompleteSaveExpired(k)
  \/ \E k \in ConfirmerPair : CompleteIncrement(k)
  \/ \E k \in ConfirmerPair : CompleteSaveCompleted(k)
  \/ CronTick
  \/ \E r \in Runners : ExpireFind(r)
  \/ \E r \in Runners : ExpireSave(r)
  \/ \E r \in Runners : ExpireIncrement(r)
  \/ Tick

TwoCallsSpec == TwoCallsInit /\ [][TwoCallsNext]_vars

\* C28: a complete call that begins after expiresAt never makes the
\* reservation COMPLETED: it does not take the completing branch, and a
\* reservation for which a complete call answered Expired (a call that found
\* it ACTIVE after expiresAt) is never stored as COMPLETED.
LateConfirmNeverCompletes ==
  /\ [][\A k \in DOMAIN confirm :
          ( /\ confirm[k].pc = "idle" /\ confirm'[k].pc # "idle"
            /\ Exists(confirm'[k].id)
            /\ now > reservations[confirm'[k].id].expiresAt )
          => confirm'[k].pc \in {"recheck", "done"}]_vars
  /\ [](\A k \in DOMAIN confirm :
          confirm[k].pc \in {"recheck", "saveExpired", "increment"}
            => now > reservations[confirm[k].id].expiresAt)
  /\ [](\A k \in DOMAIN confirm :
          (confirm[k].pc = "done" /\ confirm[k].result = "Expired")
            => reservations[confirm[k].id].status # COMPLETED)

StockConservation ==
  \A p \in DOMAIN totalStock :
    quiescent =>
      availableStock[p] + heldQuantity(p, {ACTIVE}) + heldQuantity(p, {COMPLETED})
        = totalStock[p]

\* C30 without storage errors: the same equation restricted to executions
\* in which no storage error was injected.
StockConservationFaultFree ==
  \A p \in DOMAIN totalStock :
    (quiescent /\ faults = 0) =>
      availableStock[p] + heldQuantity(p, {ACTIVE}) + heldQuantity(p, {COMPLETED})
        = totalStock[p]

\* C31: the create transaction is ended exactly once on every path: no call
\* requests more than one rollback, and the error a finished call hands to
\* its caller is the one of the failing step (InvalidQuantity, NotFound,
\* InsufficientStock or the generic failure), never the error of a second
\* attempt to end the transaction.
TransactionEndedOnce ==
  \A c \in Reservers :
    /\ reserve[c].rollbacks <= 1
    /\ finishedCall(c) =>
         reserve[c].result \in {"Claim", "InvalidQuantity", "NotFound",
                                "InsufficientStock", "InternalServerError"}

\* C31, after a commit: a call whose transaction committed has requested no
\* rollback.
NoRollbackAfterCommit ==
  \A c \in Reservers :
    reserve[c].pc = "schedule" \/ reserve[c].result = "Claim"
      => (reserve[c].rollbacks = 0 /\ ~reserve[c].txActive)

\* ------------------------------------------------- create calls that go on
\* Every step of a create call that can be taken is taken in the end: the
\* awaited database and queue calls return.  Create requests, queue jobs,
\* the cron tick and the clock run as in BatchNext, with nothing assumed of
\* their progress; no complete request is made.
CreateStep(c) ==
  \/ TransactionStep(c)
  \/ CreateSchedule(c)

ReserveSpec ==
  /\ Init
  /\ [][BatchNext]_vars
  /\ \A c \in Reservers : WF_vars(CreateStep(c))

CreateCallAt(c) == callCreate(c, now)

HoldNext ==
  \/ \E c \in Reservers : CreateCallAt(c)
  \/ \E c \in Reservers : CreateLock(c)
  \/ \E c \in Reservers : CreateDeduct(c)
  \/ \E c \in Reservers : CreateSave(c)
  \/ \E c \in Reservers : CreateCommit(c)
  \/ \E c \in Reservers : CreateSchedule(c)
  \/ \E k \in Confirmers : CompleteFind(k)
  \/ \E k \in Confirmers : CompleteRecheck(k)
  \/ \E k \in Confirmers : CompleteSaveExpired(k)
  \/ \E k \in Confirmers : CompleteIncrement(k)
  \/ \E k \in Confirmers : CompleteSaveCompleted(k)
  \/ CronTick
  \/ \E r \in Runners : ExpireFind(r)
  \/ \E r \in Runners : ExpireSave(r)
  \/ \E r \in Runners : ExpireIncrement(r)
  \/ Tick

HoldSpec == Init /\ [][HoldNext]_vars

\* C33 as amended: a reservation's expiresAt is the clock at the moment
\* create builds the row, plus HoldMinutes, the same for every reservation;
\* the row is stored with exactly that value; createdAt is never later than
\* that moment, so expiresAt is at least createdAt + HoldMinutes; and no step
\* of complete, expireReservation or the cron tick changes either value.
HoldFromBuild ==
  /\ [][\A c \in Reservers :
          /\ (reserve[c].pc = "save" /\ reserve'[c].pc = "commit")
               => reserve'[c].expiresAt = now + HoldMinutes
          /\ (~Exists(c) /\ c \in DOMAIN reservations')
               => /\ reservations'[c].expiresAt = reserve[c].expiresAt
                  /\ reservations'[c].createdAt = reserve[c].startedAt
          /\ Exists(c)
               => /\ reservations'[c].expiresAt = reservations[c].expiresAt
                  /\ reservations'[c].createdAt = reservations[c].createdAt]_vars
  /\ [](\A id \in DOMAIN reservations :
          reservations[id].expiresAt >= reservations[id].createdAt + HoldMinutes)

\* C33 as stated: every reservation's expiresAt equals its createdAt plus
\* HoldMinutes.
HoldFromCreatedAt ==
  \A id \in DOMAIN reservations :
    reservations[id].expiresAt = reservations[id].createdAt + HoldMinutes

\* C33 witness: a reservation whose transaction started before the clock
\* moved on was stored with a hold counted from the later moment, and has
\* since been completed or expired with both values as stored.
HoldFromBuildWitness ==
  \E c \in Reservers :
    /\ Exists(c)
    /\ reservations[c].expiresAt > reservations[c].createdAt + HoldMinutes
    /\ reservations[c].status # ACTIVE

\* C34: every reservation row is created ACTIVE, with the quantity (at least
\* 1) and the product of its create call, a product that has a row; every
\* stored row has a quantity of at least 1 and an existing product; and no
\* step changes the quantity or the productId of a stored row.
RecordWellFormed ==
  /\ [][\A c \in Reservers :
          /\ (~Exists(c) /\ c \in DOMAIN reservations')
               => /\ reservations'[c].status = ACTIVE
                  /\ reservations'[c].quantity = reserve[c].quantity
                  /\ reservations'[c].productId = reserve[c].productId
          /\ Exists(c)
               => /\ c \in DOMAIN reservations'
                  /\ reservations'[c].quantity = reservations[c].quantity
                  /\ reservations'[c].productId = reservations[c].productId]_vars
  /\ [](\A id \in DOMAIN reservations :
          /\ reservations[id].quantity >= 1
          /\ reservations[id].productId \in DOMAIN totalStock
          /\ reservations[id].status \in ReservationStatus)

\* C34 witness: a reservation made for one unit of an existing product has
\* been expired and still carries the quantity and product it was made
\* with, while a call that asked for quantity 0 or for a product without a
\* row has finished and left no row.
RecordWellFormedWitness ==
  \E c, d \in Reservers :
    /\ Exists(c) /\ reservations[c].status = EXPIRED
    /\ reservations[c].quantity = reserve[c].quantity
    /\ reservations[c].productId = reserve[c].productId
    /\ credited[c] = 1
    /\ finishedCall(d) /\ ~Exists(d)
    /\ reserve[d].quantity = 0 \/ reserve[d].productId = MissingProduct

\* -------------------------------------------------- a getStatistics call
\* One getStatistics call is made next to one create request, one complete
\* request, the queue job, the cron tick and the clock; no storage error is
\* injected.
StatisticsNext ==
  \/ \E c \in FirstReserver : CreateCall(c)
  \/ \E c \in FirstReserver : CreateLock(c)
  \/ \E c \in FirstReserver : CreateDeduct(c)
  \/ \E c \in FirstReserver : CreateSave(c)
  \/ \E c \in FirstReserver : CreateCommit(c)
  \/ \E c \in FirstReserver : CreateSchedule(c)
  \/ \E k \in Confirmers : CompleteFind(k)
  \/ \E k \in Confirmers : CompleteRecheck(k)
  \/ \E k \in Confirmers : CompleteSaveExpired(k)
  \/ \E k \in Confirmers : CompleteIncrement(k)
  \/ \E k \in Confirmers : CompleteSaveCompleted(k)
  \/ CronTick
  \/ \E r \in Runners : ExpireFind(r)
  \/ \E r \in Runners : ExpireSave(r)
  \/ \E r \in Runners : ExpireIncrement(r)
  \/ StatisticsActive
  \/ StatisticsCompleted
  \/ StatisticsExpired
  \/ Tick

StatisticsSpec == Init /\ [][StatisticsNext]_vars

\* C35: getStatistics is read-only and consistent: its steps change no
\* reservation row and no stock, and the three counts of a finished call sum
\* to a number of rows that existed at some moment of the call, i.e. one
\* between the number at its first query and the number at its last.
StatisticsConsistent ==
  /\ [][statistics' # statistics =>
          UNCHANGED <<reservations, availableStock, totalStock, credited, rowLock,
                      reserve, confirm, job, expire, cronList>>]_vars
  /\ [](statistics.pc = "done" =>
          /\ statistics.fewest <= statistics.active + statistics.completed
                                    + statistics.expired
          /\ statistics.active + statistics.completed + statistics.expired
               <= statistics.most)

\* C35, the read-only half alone: no step of getStatistics changes a
\* reservation row, a stock or anything else of the service.
StatisticsReadOnly ==
  [][statistics' # statistics =>
       UNCHANGED <<reservations, availableStock, totalStock, credited, rowLock,
                   reserve, confirm, job, expire, cronList>>]_vars

\* ------------------------------------------------- one call of the client
\* The frontend client makes one call; every fetch it awaits comes to an
\* answer (fetchWithTimeout aborts a fetch that has none after its timeout).
FetchNext ==
  \/ ClientCall
  \/ FetchAttempt
  \/ FetchGiveUp
  \/ PostOnce

FetchSpec == Init /\ [][FetchNext]_vars /\ WF_vars(FetchNext)

\* the call being made is one of fetchWithRetry
retrying == client.api = "fetchWithRetry"

\* C36: fetchWithRetry terminates after at most maxRetries requests; a 4xx
\* response is returned at once, so one to the first request ends the call
\* after that single request; and createReservation and completeReservation
\* make exactly one request per call, whatever the answer.
FetchBounded ==
  /\ [](retrying =>
          /\ client.requests <= client.maxRetries
          /\ client.requests = Len(client.responses)
          /\ \A n \in DOMAIN client.responses :
               ( /\ client.responses[n].kind = "response"
                 /\ client.responses[n].status \in 400..499 )
               => /\ client.pc = "done"
                  /\ client.requests = n
                  /\ client.outcome = [kind |-> "returned",
                                       status |-> client.responses[n].status])
  /\ [](client.api \in {"createReservation", "completeReservation"} =>
          /\ client.requests <= 1
          /\ client.pc = "done" => client.requests = 1)
  /\ [][client.requests' # client.requests =>
          client.requests' = client.requests + 1]_vars
  /\ (client.pc # "idle" ~> client.pc = "done")
  /\ [][client.pc = "done" => client' = client]_vars

\* C36 witness: a call of fetchWithRetry with the default maxRetries got a
\* server error, then a thrown error, then a server error again, and
\* returned that last response after exactly three requests.
FetchBoundedWitness ==
  /\ retrying /\ client.pc = "done"
  /\ client.maxRetries = DefaultMaxRetries
  /\ client.requests = DefaultMaxRetries
  /\ client.responses[1] = [kind |-> "response", status |-> 503]
  /\ client.responses[2].kind = "error"
  /\ client.outcome = [kind |-> "returned", status |-> 500]

\* C36 witness, the state-changing calls: createReservation got a server
\* error and threw it after its single request.
PostOnceWitness ==
  /\ client.api = "createReservation" /\ client.pc = "done"
  /\ client.requests = 1
  /\ client.outcome = [kind |-> "thrown", status |-> 500]

\* C36 witness, a 4xx answer: the first request of fetchWithRetry was
\* answered 404 and the call returned it without a second request.
FetchClientErrorWitness ==
  /\ retrying /\ client.pc = "done"
  /\ client.maxRetries = DefaultMaxRetries
  /\ client.requests = 1
  /\ client.outcome = [kind |-> "returned", status |-> 404]
====
